---- MODULE Spec2Model ----
(***************************************************************************)
(* The in-memory chord-resolution engine of chordserver.                   *)
(*                                                                         *)
(* Strings are sequences of one-character strings, so that the code's      *)
(* character loops, case conversions, prefix tests and concatenations are   *)
(* computed and not assumed.  A pointer to a ChordWithMeta is the          *)
(* index of the chord in chordCache: two pointers are equal iff the        *)
(* indexes are.                                                            *)
(***************************************************************************)
EXTENDS Naturals, Integers, Sequences, FiniteSets, TLC

VARIABLES
    db,             \* the rows of the chords table, in the order the query returns them
    pc,             \* "start" before loadChordData, "serving" after it, "fatal" after log.Fatalf
    chordCache,     \* []*ChordWithMeta
    chordMap,       \* map[string]*ChordWithMeta, key+"|"+suffix
    normalizedMap,  \* map[string][]*ChordWithMeta, normalizedKey+"|"+normalizedSuffix
    fingeringMap,   \* map[string][]*ChordWithMeta, frets
    op,             \* the call being answered: "none", "name", "fingering", "both", "search"
    query,          \* its query string
    mapOrder,       \* the order in which its range over fingeringMap met the matching keys
    strategy,       \* the resolver searchChords chose: "none", "fingering", "name", "both"
    status,         \* the HTTP status of an endpoint's answer, 0 for a call of the engine
    results,        \* the chords it returned
    loads,          \* the number of calls of loadChordData made
    ret,            \* the value a normalization or classifier function returned
    backing,        \* the backing array of every list of normalizedMap, 0 for nil
    procs           \* the goroutines that resolve concurrently, and their local variables

vars == <<db, pc, chordCache, chordMap, normalizedMap, fingeringMap,
          op, query, mapOrder, strategy, status, results, loads, ret, backing, procs>>

-----------------------------------------------------------------------------
(* Bounds of the model.                                                    *)

\* the longest dataset drawn freely from Pool
MaxRecords == 2

\* the longest dataset of A# chords
MaxBig == 11

\* the longest string drawn freely for a normalization or classifier function
MaxLen == 2

\* the most calls of loadChordData on one table
MaxLoads == 2

\* the goroutines that resolve concurrently
MaxProcs == 2

-----------------------------------------------------------------------------
(* Strings.                                                                *)

UpperLetters == <<"A","B","C","D","E","F","G","H","I","J","K","L","M",
                  "N","O","P","Q","R","S","T","U","V","W","X","Y","Z">>

LowerLetters == <<"a","b","c","d","e","f","g","h","i","j","k","l","m",
                  "n","o","p","q","r","s","t","u","v","w","x","y","z">>

Digits == {"0","1","2","3","4","5","6","7","8","9"}

\* the characters of the model's strings
OtherChars == {"#", "|", "/", "-", "+", " "}

Chars ==
    {UpperLetters[i] : i \in 1..26} \cup {LowerLetters[i] : i \in 1..26}
        \cup Digits \cup OtherChars

IsLower(c) == c \in {LowerLetters[i] : i \in 1..26}

IsUpper(c) == c \in {UpperLetters[i] : i \in 1..26}

\* the upper-case and the lower-case letter of every character
UpperOf ==
    [c \in Chars |->
        IF IsLower(c) THEN UpperLetters[CHOOSE i \in 1..26 : LowerLetters[i] = c] ELSE c]

LowerOf ==
    [c \in Chars |->
        IF IsUpper(c) THEN LowerLetters[CHOOSE i \in 1..26 : UpperLetters[i] = c] ELSE c]

ToUpperChar(c) == UpperOf[c]

ToLowerChar(c) == LowerOf[c]

\* strings.ToUpper
ToUpper(s) == [i \in 1..Len(s) |-> ToUpperChar(s[i])]

\* strings.ToLower
ToLower(s) == [i \in 1..Len(s) |-> ToLowerChar(s[i])]

\* strings.HasPrefix
HasPrefix(s, prefix) ==
    /\ Len(prefix) <= Len(s)
    /\ SubSeq(s, 1, Len(prefix)) = prefix

\* the separator of the map keys, key+"|"+suffix
MapKey(key, suffix) == key \o <<"|">> \o suffix

\* c >= 'A' && c <= 'G'
IsKeyUpper(c) == c \in {"A","B","C","D","E","F","G"}

\* c >= 'a' && c <= 'g'
IsKeyLower(c) == c \in {"a","b","c","d","e","f","g"}

-----------------------------------------------------------------------------
(* Normalization.                                                          *)

enharmonicMap ==
    (<<"B","B">> :> <<"A","#">>) @@
    (<<"D","B">> :> <<"C","#">>) @@
    (<<"E","B">> :> <<"D","#">>) @@
    (<<"G","B">> :> <<"F","#">>) @@
    (<<"A","B">> :> <<"G","#">>) @@
    (<<"B","#">> :> <<"C">>) @@
    (<<"E","#">> :> <<"F">>)

s_major == <<"m","a","j","o","r">>
s_minor == <<"m","i","n","o","r">>
s_maj7 == <<"m","a","j","7">>
s_m7 == <<"m","7">>
s_sus2 == <<"s","u","s","2">>
s_sus4 == <<"s","u","s","4">>

suffixAliasMap ==
    (<<"M">> :> s_major) @@
    (<<"M","A","J">> :> s_major) @@
    (<<>> :> s_major) @@
    (<<"m">> :> s_minor) @@
    (<<"M","I","N">> :> s_minor) @@
    (<<"M","I","N","O","R">> :> s_minor) @@
    (<<"5">> :> <<"5">>) @@
    (<<"P","O","W","E","R">> :> <<"5">>) @@
    (<<"F","I","F","T","H">> :> <<"5">>) @@
    (<<"7">> :> <<"7">>) @@
    (<<"D","O","M","7">> :> <<"7">>) @@
    (<<"D","O","M">> :> <<"7">>) @@
    (<<"m","7">> :> s_m7) @@
    (<<"M","I","N","7">> :> s_m7) @@
    (<<"M","I","N","O","R","7">> :> s_m7) @@
    (<<"M","A","J","7">> :> s_maj7) @@
    (<<"M","A","J","O","R","7">> :> s_maj7) @@
    (<<"M","7">> :> s_maj7) @@
    (<<"S","U","S","2">> :> s_sus2) @@
    (<<"S","U","S","4">> :> s_sus4)

\* normalizeKey without the table of enharmonic equivalents
normalizeKeyUpperOnly(key) == ToUpper(key)

\* normalizeKey with the table looked up before the key is upper-cased
normalizeKeyExactCase(key) ==
    IF key \in DOMAIN enharmonicMap THEN enharmonicMap[key] ELSE ToUpper(key)

normalizeKey(key) ==
    LET k == ToUpper(key)
    IN  IF k \in DOMAIN enharmonicMap THEN enharmonicMap[k] ELSE k

normalizeSuffix(suffix) ==
    LET s == ToUpper(suffix)
    IN  IF s \in DOMAIN suffixAliasMap THEN suffixAliasMap[s] ELSE s

-----------------------------------------------------------------------------
(* Loading.  A row of the chords table is [key, suffix, positions]; build.go *)
(* writes the key and the suffix of the JSON document into the columns of   *)
(* the same names, so the columns and the unmarshalled fields agree.  A     *)
(* position is [isString, frets]: isString is FALSE when the JSON value of  *)
(* "frets" is missing or is not a string.                                   *)

\* 1, 2, ..., n
Ids(n) == [i \in 1..n |-> i]

\* the first row whose full_data json.Unmarshal rejects, 0 when it accepts all
FirstUnparsed(rows) ==
    LET bad == {i \in 1..Len(rows) : ~rows[i].parses}
    IN  IF bad = {} THEN 0 ELSE CHOOSE i \in bad : \A j \in bad : i <= j

\* the rows the loop of loadChordData indexes before it returns: all of them,
\* or those before the row at which it returns the error of json.Unmarshal
Indexed(rows) ==
    IF FirstUnparsed(rows) = 0 THEN rows ELSE SubSeq(rows, 1, FirstUnparsed(rows) - 1)

\* the chord unmarshalled from a row, with its normalized key and suffix
ChordWithMeta(row) ==
    [Key |-> row.key,
     Suffix |-> row.suffix,
     Positions |-> row.positions,
     NormalizedKey |-> normalizeKey(row.key),
     NormalizedSuffix |-> normalizeSuffix(row.suffix)]

LoadChordCache(rows) == [i \in 1..Len(rows) |-> ChordWithMeta(rows[i])]

\* chordMap[key+"|"+suffix] = chord: a later row overwrites an earlier one
LoadChordMap(rows) ==
    LET keys == {MapKey(rows[i].key, rows[i].suffix) : i \in 1..Len(rows)}
    IN  [k \in keys |->
            CHOOSE i \in 1..Len(rows) :
                /\ MapKey(rows[i].key, rows[i].suffix) = k
                /\ \A j \in 1..Len(rows) :
                      MapKey(rows[j].key, rows[j].suffix) = k => j <= i]

\* a load that appends to the lists that normalizedMap holds already
LoadNormalizedMapKept(rows) ==
    LET cache == LoadChordCache(rows)
        KeyOf(i) == MapKey(cache[i].NormalizedKey, cache[i].NormalizedSuffix)
        keys == {KeyOf(i) : i \in 1..Len(rows)}
    IN  [k \in keys \cup DOMAIN normalizedMap |->
            LET Has(i) == KeyOf(i) = k
            IN  (IF k \in DOMAIN normalizedMap THEN normalizedMap[k] ELSE <<>>)
                \o SelectSeq(Ids(Len(rows)), Has)]

\* normalizedMap[k] = append(normalizedMap[k], chord), row after row
LoadNormalizedMap(rows) ==
    LET cache == LoadChordCache(rows)
        KeyOf(i) == MapKey(cache[i].NormalizedKey, cache[i].NormalizedSuffix)
        keys == {KeyOf(i) : i \in 1..Len(rows)}
    IN  [k \in keys |->
            LET Has(i) == KeyOf(i) = k
            IN  SelectSeq(Ids(Len(rows)), Has)]

\* the capacity of a slice that append has grown from nil to n elements, one
\* element at a time: the runtime doubles the capacity of a small slice that
\* is full
RECURSIVE Cap(_)
Cap(n) ==
    IF n = 0 THEN 0
    ELSE LET c == Cap(n - 1)
         IN  IF n <= c THEN c ELSE IF c = 0 THEN 1 ELSE 2 * c

\* the backing array of every list of normalizedMap after the load: the
\* list, then nil in the slots that append left free
LoadBacking(rows) ==
    LET lists == LoadNormalizedMap(rows)
    IN  [k \in DOMAIN lists |->
            lists[k] \o [i \in 1..(Cap(Len(lists[k])) - Len(lists[k])) |-> 0]]

\* the chord i, once for each of the positions of positions[from..] whose frets
\* is the string f
RECURSIVE FretsHits(_, _, _, _)
FretsHits(positions, from, f, i) ==
    IF from > Len(positions) THEN <<>>
    ELSE (IF positions[from].isString /\ positions[from].frets = f
          THEN <<i>> ELSE <<>>)
         \o FretsHits(positions, from + 1, f, i)

\* fingeringMap[f], built over rows[from..]
RECURSIVE FingeringList(_, _, _)
FingeringList(rows, from, f) ==
    IF from > Len(rows) THEN <<>>
    ELSE FretsHits(rows[from].positions, 1, f, from) \o FingeringList(rows, from + 1, f)

\* a load that indexes only the first position of every chord
LoadFingeringMapFirstPosition(rows) ==
    LET Firsts(i) ==
            IF Len(rows[i].positions) >= 1 /\ rows[i].positions[1].isString
            THEN {rows[i].positions[1].frets} ELSE {}
        keys == UNION {Firsts(i) : i \in 1..Len(rows)}
    IN  [f \in keys |->
            LET Has(i) == f \in Firsts(i)
            IN  SelectSeq(Ids(Len(rows)), Has)]

\* fingeringMap[frets] = append(fingeringMap[frets], chord), position after position
LoadFingeringMap(rows) ==
    LET keys == UNION {{rows[i].positions[j].frets :
                          j \in {n \in 1..Len(rows[i].positions) :
                                    rows[i].positions[n].isString}} :
                             i \in 1..Len(rows)}
    IN  [f \in keys |-> FingeringList(rows, 1, f)]

-----------------------------------------------------------------------------
(* Chord-name resolution.                                                  *)

\* the literals of the code
NameLimit == 10
FingeringLimit == 10
BothLimit == 10
EnoughChordResults == 5

\* results[:n] when len(results) > n
Truncate(s, n) == IF Len(s) > n THEN SubSeq(s, 1, n) ELSE s

getChordTypePriority(suffix) ==
    LET s == ToLower(suffix)
    IN  CASE s = <<>> \/ s = s_major -> 0
          [] s = s_minor \/ s = <<"m">> -> 1
          [] s = <<"7">> -> 2
          [] s = s_maj7 -> 3
          [] s = s_m7 \/ s = <<"m","i","n","7">> -> 4
          [] s = <<"d","i","m">> -> 5
          [] s = <<"a","u","g">> -> 6
          [] s = s_sus2 -> 7
          [] s = s_sus4 -> 8
          [] OTHER -> 100

\* the inner loop swapping also when the two priorities are equal
RECURSIVE BubblePassSwapEqual(_, _, _)
BubblePassSwapEqual(chords, j, limit) ==
    IF j > limit THEN chords
    ELSE IF getChordTypePriority(chordCache[chords[j]].Suffix)
              >= getChordTypePriority(chordCache[chords[j + 1]].Suffix)
         THEN BubblePassSwapEqual([chords EXCEPT ![j] = chords[j + 1], ![j + 1] = chords[j]],
                                  j + 1, limit)
         ELSE BubblePassSwapEqual(chords, j + 1, limit)

\* the inner loop of the bubble sort from j on: for j < limit, swap when the
\* priority of chords[j] is greater than that of chords[j+1] (positions from 1)
RECURSIVE BubblePass(_, _, _)
BubblePass(chords, j, limit) ==
    IF j > limit THEN chords
    ELSE IF getChordTypePriority(chordCache[chords[j]].Suffix)
              > getChordTypePriority(chordCache[chords[j + 1]].Suffix)
         THEN BubblePass([chords EXCEPT ![j] = chords[j + 1], ![j + 1] = chords[j]],
                         j + 1, limit)
         ELSE BubblePass(chords, j + 1, limit)

\* the outer loop from pass i on (i from 0, as in the code)
RECURSIVE BubbleSort(_, _)
BubbleSort(chords, i) ==
    IF i >= Len(chords) THEN chords
    ELSE BubbleSort(BubblePass(chords, 1, Len(chords) - i - 1), i + 1)

sortByChordType(chords) == BubbleSort(chords, 0)

\* the wanted chords of chordCache, in cache order
CacheSelect(wanted) ==
    SelectSeq(Ids(Len(chordCache)), LAMBDA i : i \in wanted)

\* the first chord of chordCache with this key and suffix, 0 for nil
FirstChord(key, suffix) ==
    LET Is(i) == chordCache[i].Key = key /\ chordCache[i].Suffix = suffix
        hits == {i \in 1..Len(chordCache) : Is(i)}
    IN  IF hits = {} THEN 0 ELSE CHOOSE i \in hits : \A j \in hits : i <= j

\* the end of the key when lower-case letters other than 'b' end it
KeyEndUpperOnly(q) ==
    LET stops == {i \in 1..Len(q) : ~(IsKeyUpper(q[i]) \/ q[i] = "#" \/ q[i] = "b")}
    IN  IF stops = {} THEN 0 ELSE CHOOSE i \in stops : \A j \in stops : i <= j

\* the position of the first character that ends the key, 0 when the loop
\* finds none
KeyEnd(q) ==
    LET stops == {i \in 1..Len(q) :
                     ~(IsKeyUpper(q[i]) \/ IsKeyLower(q[i]) \/ q[i] = "#" \/ q[i] = "b")}
    IN  IF stops = {} THEN 0 ELSE CHOOSE i \in stops : \A j \in stops : i <= j

\* the key and the suffix of a query: the key is empty after the loop when
\* no character ends it or the first one does, and is then the whole query
SplitQuery(q) ==
    LET e == KeyEnd(q)
    IN  IF e <= 1 THEN [key |-> q, suffix |-> <<>>]
        ELSE [key |-> SubSeq(q, 1, e - 1), suffix |-> SubSeq(q, e, Len(q))]

q_BB == <<"B","B">>
q_AM == <<"A","M">>
q_AMIN == <<"A","M","I","N">>
q_AMINOR == <<"A","M","I","N","O","R">>
q_CS == <<"C","#">>
q_CSMAJ == <<"C","#","M","A","J">>
q_CSMAJOR == <<"C","#","M","A","J","O","R">>
k_A == <<"A">>
k_AS == <<"A","#">>
k_CS == <<"C","#">>

\* the special case for Bb without the sort and without the search for
\* A# major: every A# chord in the order of the cache
BbCaseUnsorted(q) ==
    LET IsASharp(i) == chordCache[i].Key = k_AS
        all == CacheSelect({i \in DOMAIN chordCache : IsASharp(i)})
    IN  [decided |-> Len(all) > 0, chords |-> all]

\* the special case for Bb: 0 stands for "not decided here"
BbCase(q) ==
    LET major == FirstChord(k_AS, s_major)
        IsOther(i) == i # major /\ chordCache[i].Key = k_AS
        IsASharp(i) == chordCache[i].Key = k_AS
        all == CacheSelect({i \in DOMAIN chordCache : IsASharp(i)})
    IN  IF ToUpper(q) = q_BB /\ major # 0
        THEN [decided |-> TRUE, chords |-> <<major>> \o CacheSelect({i \in DOMAIN chordCache : IsOther(i)})]
        ELSE IF Len(all) > 0
             THEN [decided |-> TRUE, chords |-> sortByChordType(all)]
             ELSE [decided |-> FALSE, chords |-> <<>>]

\* the special case for Am without the test of the suffix: every other chord
\* of key A follows A minor
AmCaseEveryA(q) ==
    LET minor == FirstChord(k_A, s_minor)
        IsOther(i) == i # minor /\ chordCache[i].Key = k_A
    IN  IF minor # 0
        THEN [decided |-> TRUE, chords |-> <<minor>> \o CacheSelect({i \in DOMAIN chordCache : IsOther(i)})]
        ELSE [decided |-> FALSE, chords |-> <<>>]

\* the special case for Am
AmCase(q) ==
    LET minor == FirstChord(k_A, s_minor)
        IsOther(i) == /\ i # minor
                      /\ chordCache[i].Key = k_A
                      /\ HasPrefix(ToLower(chordCache[i].Suffix), <<"m">>)
    IN  IF minor # 0
        THEN [decided |-> TRUE, chords |-> <<minor>> \o CacheSelect({i \in DOMAIN chordCache : IsOther(i)})]
        ELSE [decided |-> FALSE, chords |-> <<>>]

\* the special case for C#
CSharpCase(q) ==
    LET major == FirstChord(k_CS, s_major)
        IsOther(i) == i # major /\ chordCache[i].Key = k_CS
    IN  IF major # 0
        THEN [decided |-> TRUE, chords |-> <<major>> \o CacheSelect({i \in DOMAIN chordCache : IsOther(i)})]
        ELSE [decided |-> FALSE, chords |-> <<>>]

IsBbQuery(q) == LET u == ToUpper(q) IN u = q_BB \/ HasPrefix(u, q_BB)

IsAmQuery(q) == ToUpper(q) \in {q_AM, q_AMIN, q_AMINOR}

IsCSharpQuery(q) == ToUpper(q) \in {q_CS, q_CSMAJ, q_CSMAJOR}

\* the normalized lookup and, when it finds nothing, the partial match
GenericCase(q) ==
    LET split == SplitQuery(q)
        key == split.key
        suffix == split.suffix
        lowerSuffix == ToLower(suffix)
        normalizedKey == normalizeKey(key)
        normalizedMapKey == MapKey(normalizedKey, normalizeSuffix(suffix))
        Partial(i) ==
            /\ chordCache[i].NormalizedKey = normalizedKey
            /\ \/ suffix = <<>>
               \/ HasPrefix(ToLower(chordCache[i].Suffix), lowerSuffix)
    IN  IF normalizedMapKey \in DOMAIN normalizedMap
           /\ Len(normalizedMap[normalizedMapKey]) > 0
        THEN normalizedMap[normalizedMapKey]
        ELSE Truncate(sortByChordType(CacheSelect({i \in DOMAIN chordCache : Partial(i)})), NameLimit)

searchByChordNameInMemory(q) ==
    LET bb == BbCase(q)
        am == AmCase(q)
        cs == CSharpCase(q)
    IN  IF IsBbQuery(q) /\ bb.decided THEN bb.chords
        ELSE IF IsAmQuery(q) /\ am.decided THEN am.chords
        ELSE IF IsCSharpQuery(q) /\ cs.decided THEN cs.chords
        ELSE GenericCase(q)

-----------------------------------------------------------------------------
(* Fingering resolution and combined resolution.                           *)

\* the prefix test with its arguments exchanged
MatchingFretsExchanged(q) == {f \in DOMAIN fingeringMap : HasPrefix(q, f)}

\* the keys of fingeringMap that strings.HasPrefix(frets, query) accepts
MatchingFrets(q) == {f \in DOMAIN fingeringMap : HasPrefix(f, q)}

\* the orders in which a range over a Go map may meet the keys of S
Orders(S) ==
    {o \in [1..Cardinality(S) -> S] : \A i, j \in 1..Cardinality(S) : o[i] = o[j] => i = j}

\* results = append(results, chords...) for the matching keys, in the order met
RECURSIVE AppendMatches(_, _)
AppendMatches(order, from) ==
    IF from > Len(order) THEN <<>>
    ELSE fingeringMap[order[from]] \o AppendMatches(order, from + 1)

searchByFingeringInMemory(q, order) ==
    IF q \in DOMAIN fingeringMap THEN fingeringMap[q]
    ELSE Truncate(AppendMatches(order, 1), FingeringLimit)

\* the orders the range of searchByFingeringInMemory may take: none is taken
\* when the exact match returns first
FingeringOrders(q) ==
    IF q \in DOMAIN fingeringMap THEN {<<>>} ELSE Orders(MatchingFrets(q))

\* the loop without the test of seen: every chord is kept
UniqueResultsKeepAll(chords, from, seen) == SubSeq(chords, from, Len(chords))

\* the loop that removes duplicates: seen is the set of key+"|"+suffix met
RECURSIVE UniqueResults(_, _, _)
UniqueResults(chords, from, seen) ==
    IF from > Len(chords) THEN <<>>
    ELSE LET key == MapKey(chordCache[chords[from]].Key, chordCache[chords[from]].Suffix)
         IN  IF key \in seen
             THEN UniqueResults(chords, from + 1, seen)
             ELSE <<chords[from]>> \o UniqueResults(chords, from + 1, seen \cup {key})

searchBothInMemory(q, order) ==
    LET chordResults == searchByChordNameInMemory(q)
    IN  IF Len(chordResults) >= EnoughChordResults
        THEN SubSeq(chordResults, 1, EnoughChordResults)
        ELSE Truncate(UniqueResults(chordResults \o searchByFingeringInMemory(q, order),
                                    1, {}),
                      BothLimit)

\* the orders the range may take inside searchBothInMemory: the fingering
\* search is not run when the name search has enough results
BothOrders(q) ==
    IF Len(searchByChordNameInMemory(q)) >= EnoughChordResults
    THEN {<<>>} ELSE FingeringOrders(q)

\* the key of normalizedMap whose list searchByChordNameInMemory returns as
\* it is, with its backing array; <<>> when it returns a slice of its own
NameAlias(q) ==
    LET split == SplitQuery(q)
        normalizedMapKey ==
            MapKey(normalizeKey(split.key), normalizeSuffix(split.suffix))
    IN  IF \/ IsBbQuery(q) /\ BbCase(q).decided
           \/ IsAmQuery(q) /\ AmCase(q).decided
           \/ IsCSharpQuery(q) /\ CSharpCase(q).decided
        THEN <<>>
        ELSE IF normalizedMapKey \in DOMAIN normalizedMap
                /\ Len(normalizedMap[normalizedMapKey]) > 0
        THEN normalizedMapKey
        ELSE <<>>

\* append(chordResults, fingeringResults...) stores into the array of
\* chordResults when that array has room for the elements added
AppendsInPlace(alias, chordResults, fingeringResults) ==
    /\ alias # <<>>
    /\ Len(fingeringResults) > 0
    /\ Len(chordResults) + Len(fingeringResults) <= Len(backing[alias])

\* the backing arrays after such an append
BackingAfterAppend(alias, chordResults, fingeringResults) ==
    [backing EXCEPT ![alias] =
        [i \in 1..Len(@) |->
            IF i > Len(chordResults) /\ i <= Len(chordResults) + Len(fingeringResults)
            THEN fingeringResults[i - Len(chordResults)]
            ELSE @[i]]]

\* the backing arrays after a whole call of searchBothInMemory
BackingAfterBoth(q, order) ==
    LET chordResults == searchByChordNameInMemory(q)
        alias == NameAlias(q)
    IN  IF alias = <<>> \/ Len(chordResults) >= EnoughChordResults THEN backing
        ELSE LET fingeringResults == searchByFingeringInMemory(q, order)
             IN  IF AppendsInPlace(alias, chordResults, fingeringResults)
                 THEN BackingAfterAppend(alias, chordResults, fingeringResults)
                 ELSE backing

-----------------------------------------------------------------------------
(* The query classifier and the search endpoint.                           *)

RECURSIVE FingeringLoop(_, _)
FingeringLoop(q, from) ==
    IF from > Len(q) THEN TRUE
    ELSE IF ~(q[from] \in Digits \/ IsLower(q[from]) \/ q[from] = "x" \/ q[from] = "X")
         THEN FALSE
         ELSE FingeringLoop(q, from + 1)

\* the loop without the test of 'X'
isLikelyFingeringPatternLowerOnly(q) ==
    \A i \in 1..Len(q) : q[i] \in Digits \/ IsLower(q[i])

isLikelyFingeringPattern(q) == FingeringLoop(q, 1)

\* the test of the first character without the lower-case letters
isLikelyChordNameUpperOnly(q) ==
    IF Len(q) = 0 THEN FALSE
    ELSE IF ~IsKeyUpper(q[1]) THEN FALSE
    ELSE TRUE

isLikelyChordName(q) ==
    IF Len(q) = 0 THEN FALSE
    ELSE IF ~(IsKeyUpper(q[1]) \/ IsKeyLower(q[1])) THEN FALSE
    ELSE TRUE

\* the resolver searchChords hands the query to
ChooseStrategy(q) ==
    LET isFingeringPattern == isLikelyFingeringPattern(q)
        isChordName == isLikelyChordName(q)
    IN  IF isFingeringPattern /\ ~isChordName THEN "fingering"
        ELSE IF isChordName /\ ~isFingeringPattern THEN "name"
        ELSE "both"

\* the orders the range may take under the chosen resolver
SearchOrders(q) ==
    CASE ChooseStrategy(q) = "fingering" -> FingeringOrders(q)
      [] ChooseStrategy(q) = "name" -> {<<>>}
      [] OTHER -> BothOrders(q)

\* the chords searchChords gets from the chosen resolver
SearchResults(q, order) ==
    CASE ChooseStrategy(q) = "fingering" -> searchByFingeringInMemory(q, order)
      [] ChooseStrategy(q) = "name" -> searchByChordNameInMemory(q)
      [] OTHER -> searchBothInMemory(q, order)

StatusOK == 200
StatusBadRequest == 400
StatusNotFound == 404

-----------------------------------------------------------------------------
(* The datasets and the queries of the model.                              *)

Pos(frets) == [isString |-> TRUE, frets |-> frets]

Row(key, suffix, fretsList) ==
    [key |-> key, suffix |-> suffix, parses |-> TRUE,
     positions |-> [i \in 1..Len(fretsList) |-> Pos(fretsList[i])]]

\* the row with a full_data that is not the JSON of a chord
Unparseable(row) == [row EXCEPT !.parses = FALSE]

\* chords in the spellings of the alias table, some sharing a fingering, one
\* fingering a prefix of another, one starting with a letter of a key
Pool ==
    {Row(<<"A">>, <<"m", "a", "j", "o", "r">>, <<<<"x", "0", "2", "2", "2", "0">>>>),
     Row(<<"A">>, <<"m", "i", "n", "o", "r">>, <<<<"x", "0", "2", "2", "1", "0">>, <<"x", "0", "2", "2">>>>),
     Row(<<"A">>, <<"M">>, <<<<"x", "0", "2", "2", "2", "0">>>>),
     Row(<<"G", "#">>, <<"m", "a", "j", "o", "r">>, <<<<"4", "6", "6", "5", "4", "4">>>>),
     Row(<<"A", "b">>, <<"7">>, <<<<"4", "6", "4", "5", "4", "4">>>>),
     Row(<<"C">>, <<"m", "a", "j", "o", "r">>, <<<<"x", "3", "2", "0", "1", "0">>, <<"c", "f", "e", "d", "d", "c">>>>)}

\* the (key, suffix) pairs of a dataset are unique
UniquePairs(rows) ==
    \A i, j \in 1..Len(rows) :
        (rows[i].key = rows[j].key /\ rows[i].suffix = rows[j].suffix) => i = j

\* the empty table is one of them
SmallDatasets ==
    {rows \in UNION {[1..n -> Pool] : n \in 0..MaxRecords} : UniquePairs(rows)}

\* a small dataset with one row that does not parse
MalformedDatasets ==
    {[rows EXCEPT ![i] = Unparseable(rows[i])] :
        <<rows, i>> \in {<<rows, i>> \in SmallDatasets \X (1..MaxRecords) : i <= Len(rows)}}

\* A major, A minor, A7 and Adim in every insertion order, major and minor
\* in two spellings each
PriorityChords ==
    {{Row(<<"A">>, major, <<<<"5", "7", "7", "6", "5", "5">>>>), Row(<<"A">>, minor, <<<<"5", "7", "7", "5", "5", "5">>>>),
      Row(<<"A">>, <<"7">>, <<<<"5", "7", "5", "6", "5", "5">>>>),
      Row(<<"A">>, <<"d", "i", "m">>, <<<<"x", "0", "1", "2", "1", "2">>>>)} :
        major \in {s_major, <<>>}, minor \in {s_minor, <<"m">>}}

PriorityDatasets ==
    UNION {{rows \in [1..4 -> chords] : UniquePairs(rows)} : chords \in PriorityChords}

BigSuffixes ==
    <<<<"m", "a", "j", "o", "r">>,
      <<"m", "i", "n", "o", "r">>,
      <<"7">>,
      <<"m", "7">>,
      <<"m", "a", "j", "7">>,
      <<"d", "i", "m">>,
      <<"a", "u", "g">>,
      <<"s", "u", "s", "2">>,
      <<"s", "u", "s", "4">>,
      <<"6">>,
      <<"9">>,
      <<"1", "1">>,
      <<"1", "3">>>>

\* the i-th A# chord: all share one fingering and have one of two others
BigRow(i) ==
    Row(k_AS, BigSuffixes[i],
        <<<<"x", "1", "3", "3", "3", "1">>, IF i % 2 = 1 THEN <<"x", "2">> ELSE <<"x", "3">>>>)

BigDatasets == {[i \in 1..n |-> BigRow(i)] : n \in 1..MaxBig}

\* A chords with a position whose frets is a string with a character that is
\* no fret, and one whose frets is not a JSON string
OddFretsChords ==
    {[Row(<<"A">>, s_sus2, <<<<"x", "0", "2", "2", "0", "0">>, <<"x", "-", "2", "2", "0", "0">>>>)
         EXCEPT !.positions = Append(@, [isString |-> FALSE, frets |-> <<>>])],
     Row(<<"A">>, s_sus4, <<<<"x", "0", "2", "2", "3", "O">>>>)}

OddFretsDatasets ==
    {rows \in UNION {[1..n -> OddFretsChords] : n \in 1..2} : UniquePairs(rows)}

Datasets ==
    SmallDatasets \cup MalformedDatasets \cup PriorityDatasets \cup BigDatasets
        \cup OddFretsDatasets

Queries ==
    {<<"A">>,
     <<"a">>,
     <<"A", "m">>,
     <<"A", "m", "i", "n">>,
     <<"A", "m", "i", "n", "o", "r">>,
     <<"A", "M">>,
     <<"A", "m", "a", "j", "o", "r">>,
     <<"A", "d", "i", "m">>,
     <<"A", "m", "7">>,
     <<"A", "7">>,
     <<"A", "b">>,
     <<"G", "#">>,
     <<"A", "b", "m", "a", "j", "o", "r">>,
     <<"G", "#", "m", "a", "j", "o", "r">>,
     <<"A", "b", "m">>,
     <<"G", "#", "m">>,
     <<"A", "b", "7">>,
     <<"G", "#", "7">>,
     <<"A", "b", "d", "i", "m">>,
     <<"G", "#", "d", "i", "m">>,
     <<"B", "b">>,
     <<"B", "b", "m">>,
     <<"A", "#">>,
     <<"A", "#", "m", "a", "j", "o", "r">>,
     <<"C">>,
     <<"c">>,
     <<"C", "m", "a", "j", "o", "r">>,
     <<"C", "#">>,
     <<"x">>,
     <<"x", "0">>,
     <<"x", "0", "2", "2">>,
     <<"x", "0", "2", "2", "2">>,
     <<"x", "0", "2", "2", "2", "0">>,
     <<"x", "0", "2", "2", "1", "0">>,
     <<"x", "1">>,
     <<"x", "1", "3", "3", "3", "1">>,
     <<"4">>,
     <<"4", "6", "6", "5", "4", "4">>,
     <<"x", "4", "7", "6", "5", "4">>,
     <<"a", "b", "c", "d", "e", "f">>,
     <<"9", "a", "b", "c", "d", "e">>,
     <<"c", "a", "f", "e">>,
     <<"7">>,
     <<"X", "0">>,
     <<"#">>}

-----------------------------------------------------------------------------
(* The behaviour: main loads the data, then the server answers calls.      *)

Init ==
    /\ db \in Datasets
    /\ pc = "start"
    /\ chordCache = <<>>
    /\ chordMap = <<>>
    /\ normalizedMap = <<>>
    /\ fingeringMap = <<>>
    /\ op = "none"
    /\ query = <<>>
    /\ mapOrder = <<>>
    /\ strategy = "none"
    /\ status = 0
    /\ results = <<>>
    /\ loads = 0
    /\ ret = <<>>
    /\ backing = <<>>
    /\ procs = <<>>

\* the body of loadChordData: the four structures are made anew, then filled
\* row after row; main ends the process when it returns an error
LoadRows ==
    /\ chordCache' = LoadChordCache(Indexed(db))
    /\ chordMap' = LoadChordMap(Indexed(db))
    /\ normalizedMap' = LoadNormalizedMap(Indexed(db))
    /\ fingeringMap' = LoadFingeringMap(Indexed(db))
    /\ backing' = LoadBacking(Indexed(db))
    /\ loads' = loads + 1
    /\ pc' = IF FirstUnparsed(db) = 0 THEN "serving" ELSE "fatal"

\* the call main makes
loadChordData ==
    /\ pc = "start"
    /\ LoadRows
    /\ UNCHANGED <<db, op, query, mapOrder, strategy, status, results, ret, procs>>

\* a call of searchByChordNameInMemory
ResolveByName(q) ==
    /\ pc = "serving"
    /\ op = "none"
    /\ op' = "name"
    /\ query' = q
    /\ mapOrder' = <<>>
    /\ strategy' = "none"
    /\ status' = 0
    /\ results' = searchByChordNameInMemory(q)
    /\ UNCHANGED <<db, pc, chordCache, chordMap, normalizedMap, fingeringMap, loads, ret, backing, procs>>

\* a call of searchByFingeringInMemory
ResolveByFingering(q, order) ==
    /\ pc = "serving"
    /\ op = "none"
    /\ op' = "fingering"
    /\ query' = q
    /\ mapOrder' = order
    /\ strategy' = "none"
    /\ status' = 0
    /\ results' = searchByFingeringInMemory(q, order)
    /\ UNCHANGED <<db, pc, chordCache, chordMap, normalizedMap, fingeringMap, loads, ret, backing, procs>>

\* a call of searchBothInMemory
ResolveBoth(q, order) ==
    /\ pc = "serving"
    /\ op = "none"
    /\ op' = "both"
    /\ query' = q
    /\ mapOrder' = order
    /\ strategy' = "none"
    /\ status' = 0
    /\ results' = searchBothInMemory(q, order)
    /\ backing' = BackingAfterBoth(q, order)
    /\ UNCHANGED <<db, pc, chordCache, chordMap, normalizedMap, fingeringMap, loads, ret, procs>>

\* searchChords without the test of len(chords) == 0
searchChordsNoNotFound(q, order) ==
    /\ pc = "serving"
    /\ op = "none"
    /\ op' = "search"
    /\ query' = q
    /\ mapOrder' = order
    /\ strategy' = IF q = <<>> THEN "none" ELSE ChooseStrategy(q)
    /\ results' = IF q = <<>> THEN <<>> ELSE SearchResults(q, order)
    /\ status' = IF q = <<>> THEN StatusBadRequest ELSE StatusOK
    /\ backing' = IF q # <<>> /\ ChooseStrategy(q) = "both"
                  THEN BackingAfterBoth(q, order) ELSE backing
    /\ UNCHANGED <<db, pc, chordCache, chordMap, normalizedMap, fingeringMap, loads, ret, procs>>

\* a request to /search/<q>
searchChords(q, order) ==
    /\ pc = "serving"
    /\ op = "none"
    /\ op' = "search"
    /\ query' = q
    /\ IF q = <<>>
       THEN /\ mapOrder' = <<>>
            /\ strategy' = "none"
            /\ status' = StatusBadRequest
            /\ results' = <<>>
       ELSE LET chords == SearchResults(q, order)
            IN  /\ mapOrder' = order
                /\ strategy' = ChooseStrategy(q)
                /\ results' = chords
                /\ status' = IF Len(chords) = 0 THEN StatusNotFound ELSE StatusOK
    /\ backing' = IF q # <<>> /\ ChooseStrategy(q) = "both"
                  THEN BackingAfterBoth(q, order) ELSE backing
    /\ UNCHANGED <<db, pc, chordCache, chordMap, normalizedMap, fingeringMap, loads, ret, procs>>

\* the call returns: its query and its results are gone, the indexes stay
Return ==
    /\ pc = "serving"
    /\ op # "none"
    /\ op' = "none"
    /\ query' = <<>>
    /\ mapOrder' = <<>>
    /\ strategy' = "none"
    /\ status' = 0
    /\ results' = <<>>
    /\ UNCHANGED <<db, pc, chordCache, chordMap, normalizedMap, fingeringMap, loads, ret, backing, procs>>

Next ==
    \/ loadChordData
    \/ Return
    \/ \E q \in Queries : ResolveByName(q)
    \/ \E q \in Queries : \E order \in FingeringOrders(q) : ResolveByFingering(q, order)
    \/ \E q \in Queries : \E order \in BothOrders(q) : ResolveBoth(q, order)
    \/ \E q \in Queries \cup {<<>>} :
          \E order \in (IF q = <<>> THEN {<<>>} ELSE SearchOrders(q)) :
             searchChords(q, order)

Spec == Init /\ [][Next]_vars

\* loadChordData called again on the same table, between two requests
loadChordDataAgain ==
    /\ pc = "serving"
    /\ op = "none"
    /\ loads < MaxLoads
    /\ LoadRows
    /\ UNCHANGED <<db, op, query, mapOrder, strategy, status, results, ret, procs>>

NextReload == Next \/ loadChordDataAgain

\* the tables that are loaded twice
InitReload == Init /\ db \in SmallDatasets \cup MalformedDatasets \cup BigDatasets

SpecReload == InitReload /\ [][NextReload]_vars

-----------------------------------------------------------------------------
(* The three handlers main registers: /chords/, /fingers/ and /search/.    *)

\* the position that ends the key in getChordByName, 0 when the loop finds
\* none: only upper-case letters, '#' and 'b' belong to the key
ChordPathKeyEnd(q) ==
    LET stops == {i \in 1..Len(q) : ~(IsKeyUpper(q[i]) \/ q[i] = "#" \/ q[i] = "b")}
    IN  IF stops = {} THEN 0 ELSE CHOOSE i \in stops : \A j \in stops : i <= j

\* the key and the suffix of getChordByName
SplitChordPath(q) ==
    LET e == ChordPathKeyEnd(q)
    IN  IF e <= 1 THEN [key |-> q, suffix |-> <<>>]
        ELSE [key |-> SubSeq(q, 1, e - 1), suffix |-> SubSeq(q, e, Len(q))]

\* getChordByName with the direct lookup in chordMap alone
ChordByNameDirectOnly(q) ==
    LET split == SplitChordPath(q)
        mapKey == MapKey(split.key, split.suffix)
    IN  IF mapKey \in DOMAIN chordMap THEN <<chordMap[mapKey]>> ELSE <<>>

\* getChordByName with the flexible search alone
ChordByNameFlexibleOnly(q) ==
    LET flexible == searchByChordNameInMemory(q)
    IN  IF Len(flexible) > 0 THEN <<flexible[1]>> ELSE <<>>

\* the chord getChordByName answers with, as a list of one chord; the empty
\* list when it answers "Chord not found"
ChordByName(q) ==
    LET split == SplitChordPath(q)
        mapKey == MapKey(split.key, split.suffix)
        normalizedMapKey ==
            MapKey(normalizeKey(split.key), normalizeSuffix(split.suffix))
    IN  IF mapKey \in DOMAIN chordMap THEN <<chordMap[mapKey]>>
        ELSE IF normalizedMapKey \in DOMAIN normalizedMap
                /\ Len(normalizedMap[normalizedMapKey]) > 0
        THEN <<normalizedMap[normalizedMapKey][1]>>
        ELSE LET flexible == searchByChordNameInMemory(q)
             IN  IF Len(flexible) > 0 THEN <<flexible[1]>> ELSE <<>>

\* the prefix loop of getChordsByFingering without its test of the prefix
ChordsByFingeringEveryChord(q, order) ==
    IF q \in DOMAIN fingeringMap THEN fingeringMap[q] ELSE Ids(Len(chordCache))

\* the chords getChordsByFingering answers with: the exact match, or every
\* prefix match in the order the range met them, without a cut
ChordsByFingering(q, order) ==
    IF q \in DOMAIN fingeringMap THEN fingeringMap[q] ELSE AppendMatches(order, 1)

\* G# and C chords, the minor in two spellings
EnharmonicChords ==
    {Row(<<"G", "#">>, s_major, <<<<"4", "6", "6", "5", "4", "4">>>>),
     Row(<<"G", "#">>, s_minor, <<<<"4", "6", "6", "4", "4", "4">>>>),
     Row(<<"G", "#">>, <<"m">>, <<<<"4", "6", "6", "4", "4", "4">>>>),
     Row(<<"C">>, s_major, <<<<"x", "3", "2", "0", "1", "0">>>>)}

EnharmonicDatasets ==
    {rows \in UNION {[1..n -> EnharmonicChords] : n \in 1..(MaxRecords + 1)} :
        UniquePairs(rows)}

\* the paths of the tests of the /chords/ endpoint, and others
ChordPaths ==
    Queries \cup {<<"A", "b", "m", "i", "n">>, <<"B", "#">>, <<"a", "b">>,
                  <<"B", "b", "m", "i", "n">>}

InitHTTP ==
    /\ db \in SmallDatasets \cup EnharmonicDatasets \cup BigDatasets
    /\ pc = "start"
    /\ chordCache = <<>>
    /\ chordMap = <<>>
    /\ normalizedMap = <<>>
    /\ fingeringMap = <<>>
    /\ op = "none"
    /\ query = <<>>
    /\ mapOrder = <<>>
    /\ strategy = "none"
    /\ status = 0
    /\ results = <<>>
    /\ loads = 0
    /\ ret = <<>>
    /\ backing = <<>>
    /\ procs = <<>>

\* a request to /chords/<q>
getChordByName(q) ==
    /\ pc = "serving"
    /\ op = "none"
    /\ op' = "chords"
    /\ query' = q
    /\ mapOrder' = <<>>
    /\ strategy' = "none"
    /\ IF q = <<>>
       THEN /\ status' = StatusBadRequest
            /\ results' = <<>>
       ELSE LET chord == ChordByName(q)
            IN  /\ results' = chord
                /\ status' = IF Len(chord) = 0 THEN StatusNotFound ELSE StatusOK
    /\ UNCHANGED <<db, pc, chordCache, chordMap, normalizedMap, fingeringMap, loads, ret, backing, procs>>

\* a request to /fingers/<q>
getChordsByFingering(q, order) ==
    /\ pc = "serving"
    /\ op = "none"
    /\ op' = "fingers"
    /\ query' = q
    /\ mapOrder' = order
    /\ strategy' = "none"
    /\ IF q = <<>>
       THEN /\ status' = StatusBadRequest
            /\ results' = <<>>
       ELSE LET chords == ChordsByFingering(q, order)
            IN  /\ results' = chords
                /\ status' = IF Len(chords) = 0 THEN StatusNotFound ELSE StatusOK
    /\ UNCHANGED <<db, pc, chordCache, chordMap, normalizedMap, fingeringMap, loads, ret, backing, procs>>

NextHTTP ==
    \/ loadChordData
    \/ Return
    \/ \E q \in ChordPaths \cup {<<>>} : getChordByName(q)
    \/ \E q \in Queries \cup {<<>>} :
          \E order \in (IF q = <<>> THEN {<<>>} ELSE FingeringOrders(q)) :
             getChordsByFingering(q, order)
    \/ \E q \in Queries \cup {<<>>} :
          \E order \in (IF q = <<>> THEN {<<>>} ELSE SearchOrders(q)) :
             searchChords(q, order)

SpecHTTP == InitHTTP /\ [][NextHTTP]_vars

-----------------------------------------------------------------------------
(* Concurrent requests: net/http runs every handler in a goroutine of its  *)
(* own.  The name search and the fingering search only read, and are one   *)
(* step each; searchBothInMemory is taken statement by statement.          *)

Procs == 1..MaxProcs

\* a goroutine that runs no resolver
Idle ==
    [pc |-> "idle", kind |-> "none", query |-> <<>>, order |-> <<>>,
     alias |-> <<>>, chordResults |-> <<>>, fingeringResults |-> <<>>,
     inPlace |-> FALSE, combined |-> <<>>, results |-> <<>>]

\* three spellings of C major that share one list of normalizedMap, and
\* chords with fingerings that start with the letter c
ConcurrentChords ==
    <<Row(<<"C">>, <<>>, <<<<"x", "3", "2", "0", "1", "0">>>>),
      Row(<<"C">>, <<"M">>, <<<<"x", "3", "5", "5", "5", "3">>>>),
      Row(<<"C">>, <<"m", "a", "j">>, <<<<"8", "a", "a", "9", "8", "8">>>>),
      Row(<<"E">>, s_major, <<<<"c", "f", "e", "d", "d", "c">>>>),
      Row(<<"D">>, s_major, <<<<"c", "m">>>>),
      Row(<<"F">>, s_major, <<<<"c", "m", "a", "j">>>>)>>

ConcurrentDatasets ==
    {SubSeq(ConcurrentChords, 1, 2),
     SubSeq(ConcurrentChords, 1, 4),
     SubSeq(ConcurrentChords, 1, 3) \o SubSeq(ConcurrentChords, 5, 6)}

ConcurrentQueries ==
    {<<"c">>, <<"c", "m">>, <<"c", "m", "a", "j">>, <<"C">>, <<"c", "f">>}

InitConcurrent ==
    /\ db \in ConcurrentDatasets
    /\ pc = "start"
    /\ chordCache = <<>>
    /\ chordMap = <<>>
    /\ normalizedMap = <<>>
    /\ fingeringMap = <<>>
    /\ op = "none"
    /\ query = <<>>
    /\ mapOrder = <<>>
    /\ strategy = "none"
    /\ status = 0
    /\ results = <<>>
    /\ loads = 0
    /\ ret = <<>>
    /\ backing = <<>>
    /\ procs = [p \in Procs |-> Idle]

\* a whole call of searchByChordNameInMemory by goroutine p
NameCall(p, q) ==
    /\ pc = "serving"
    /\ procs[p].pc = "idle"
    /\ procs' = [procs EXCEPT ![p] =
                    [Idle EXCEPT !.pc = "done", !.kind = "name", !.query = q,
                                 !.results = searchByChordNameInMemory(q)]]
    /\ UNCHANGED <<db, pc, chordCache, chordMap, normalizedMap, fingeringMap,
                   op, query, mapOrder, strategy, status, results, loads, ret, backing>>

\* a whole call of searchByFingeringInMemory by goroutine p
FingeringCall(p, q, order) ==
    /\ pc = "serving"
    /\ procs[p].pc = "idle"
    /\ procs' = [procs EXCEPT ![p] =
                    [Idle EXCEPT !.pc = "done", !.kind = "fingering", !.query = q,
                                 !.order = order,
                                 !.results = searchByFingeringInMemory(q, order)]]
    /\ UNCHANGED <<db, pc, chordCache, chordMap, normalizedMap, fingeringMap,
                   op, query, mapOrder, strategy, status, results, loads, ret, backing>>

\* searchBothInMemory: chordResults := searchByChordNameInMemory(query), and
\* the return of chordResults[:5]
BothName(p, q) ==
    /\ pc = "serving"
    /\ procs[p].pc = "idle"
    /\ LET chordResults == searchByChordNameInMemory(q)
       IN  procs' = [procs EXCEPT ![p] =
                        IF Len(chordResults) >= EnoughChordResults
                        THEN [Idle EXCEPT !.pc = "done", !.kind = "both", !.query = q,
                                          !.results = SubSeq(chordResults, 1, EnoughChordResults)]
                        ELSE [Idle EXCEPT !.pc = "named", !.kind = "both", !.query = q,
                                          !.alias = NameAlias(q),
                                          !.chordResults = chordResults]]
    /\ UNCHANGED <<db, pc, chordCache, chordMap, normalizedMap, fingeringMap,
                   op, query, mapOrder, strategy, status, results, loads, ret, backing>>

\* searchBothInMemory: fingeringResults := searchByFingeringInMemory(query)
BothFingering(p, order) ==
    /\ procs[p].pc = "named"
    /\ procs' = [procs EXCEPT ![p].pc = "fingered", ![p].order = order,
                              ![p].fingeringResults =
                                  searchByFingeringInMemory(procs[p].query, order)]
    /\ UNCHANGED <<db, pc, chordCache, chordMap, normalizedMap, fingeringMap,
                   op, query, mapOrder, strategy, status, results, loads, ret, backing>>

\* searchBothInMemory: results := append(chordResults, fingeringResults...),
\* into the array of chordResults when it has room, into a new one otherwise
BothAppend(p) ==
    /\ procs[p].pc = "fingered"
    /\ LET me == procs[p]
           inPlace == AppendsInPlace(me.alias, me.chordResults, me.fingeringResults)
       IN  /\ backing' = IF inPlace
                         THEN BackingAfterAppend(me.alias, me.chordResults,
                                                 me.fingeringResults)
                         ELSE backing
           /\ procs' = [procs EXCEPT ![p].pc = "appended", ![p].inPlace = inPlace,
                                     ![p].combined =
                                         me.chordResults \o me.fingeringResults]
    /\ UNCHANGED <<db, pc, chordCache, chordMap, normalizedMap, fingeringMap,
                   op, query, mapOrder, strategy, status, results, loads, ret>>

\* searchBothInMemory: the loop over results, read from the array they are in,
\* and the cut to 10
BothUnique(p) ==
    /\ procs[p].pc = "appended"
    /\ LET me == procs[p]
           read == IF me.inPlace
                   THEN SubSeq(backing[me.alias], 1, Len(me.combined))
                   ELSE me.combined
       IN  procs' = [procs EXCEPT ![p].pc = "done",
                                  ![p].results =
                                      Truncate(UniqueResults(read, 1, {}), BothLimit)]
    /\ UNCHANGED <<db, pc, chordCache, chordMap, normalizedMap, fingeringMap,
                   op, query, mapOrder, strategy, status, results, loads, ret, backing>>

\* the resolver of goroutine p has returned and its results are used
ProcReturn(p) ==
    /\ procs[p].pc = "done"
    /\ procs' = [procs EXCEPT ![p] = Idle]
    /\ UNCHANGED <<db, pc, chordCache, chordMap, normalizedMap, fingeringMap,
                   op, query, mapOrder, strategy, status, results, loads, ret, backing>>

NextConcurrent ==
    \/ loadChordData
    \/ \E p \in Procs, q \in ConcurrentQueries : NameCall(p, q)
    \/ \E p \in Procs, q \in ConcurrentQueries :
          \E order \in FingeringOrders(q) : FingeringCall(p, q, order)
    \/ \E p \in Procs, q \in ConcurrentQueries : BothName(p, q)
    \/ \E p \in Procs :
          \E order \in FingeringOrders(procs[p].query) : BothFingering(p, order)
    \/ \E p \in Procs : BothAppend(p)
    \/ \E p \in Procs : BothUnique(p)
    \/ \E p \in Procs : ProcReturn(p)

SpecConcurrent == InitConcurrent /\ [][NextConcurrent]_vars

-----------------------------------------------------------------------------
(* The normalization functions and the classifier on their own: a string   *)
(* is drawn, and one of the functions is applied to it.                    *)

\* letters of keys and of suffixes in both cases, digits, the mute marks
PureChars ==
    {"A", "B", "C", "D", "E", "G", "H", "M", "X",
     "a", "b", "d", "e", "g", "h", "m", "x", "z",
     "0", "7", "9", "#"}

ShortStrings == UNION {[1..n -> PureChars] : n \in 0..MaxLen}

\* the spellings of suffixAliasMap in several cases, other suffixes, and
\* longer queries
Spellings ==
    {<<"M">>, <<"M", "A", "J">>, <<"m">>, <<"M", "I", "N">>, <<"M", "I", "N", "O", "R">>,
     <<"5">>, <<"P", "O", "W", "E", "R">>, <<"F", "I", "F", "T", "H">>, <<"7">>,
     <<"D", "O", "M">>, <<"D", "O", "M", "7">>, <<"m", "7">>, <<"M", "I", "N", "7">>,
     <<"M", "I", "N", "O", "R", "7">>, <<"m", "a", "j", "7">>,
     <<"M", "A", "J", "O", "R", "7">>, <<"M", "7">>, <<"s", "u", "s", "2">>,
     <<"s", "u", "s", "4">>, <<"m", "a", "j">>, <<"m", "i", "n">>,
     <<"m", "i", "n", "o", "r">>, <<"M", "i", "n", "o", "r">>,
     <<"p", "o", "w", "e", "r">>, <<"f", "i", "f", "t", "h">>, <<"d", "o", "m">>,
     <<"d", "o", "m", "7">>, <<"m", "i", "n", "7">>, <<"m", "i", "n", "o", "r", "7">>,
     <<"m", "a", "j", "o", "r", "7">>, <<"M", "A", "J", "7">>, <<"M", "a", "j", "7">>,
     <<"S", "U", "S", "2">>, <<"S", "U", "S", "4">>, <<"S", "u", "s", "4">>,
     <<"m", "a", "j", "o", "r">>, <<"M", "A", "J", "O", "R">>, <<"d", "i", "m">>,
     <<"a", "u", "g">>, <<"a", "d", "d", "9">>, <<"6">>,
     <<"x", "4", "7", "6", "5", "4">>, <<"a", "b", "c", "d", "e", "f">>,
     <<"9", "a", "b", "c", "d", "e">>, <<"X", "0", "2", "2", "2", "0">>,
     <<"x", "0", "2", "2", "2", "O">>, <<"A", "b", "m", "i", "n">>,
     <<"c", "a", "f", "e">>, <<"C", "a", "f", "e">>, <<"x", "4", "7", "6", "5", "#">>}

PureInputs == ShortStrings \cup Spellings

InitPure ==
    /\ db = <<>>
    /\ pc = "start"
    /\ chordCache = <<>>
    /\ chordMap = <<>>
    /\ normalizedMap = <<>>
    /\ fingeringMap = <<>>
    /\ op = "none"
    /\ query \in PureInputs
    /\ mapOrder = <<>>
    /\ strategy = "none"
    /\ status = 0
    /\ results = <<>>
    /\ loads = 0
    /\ ret = <<>>
    /\ backing = <<>>
    /\ procs = <<>>

\* a call of one of the functions on the string drawn: ret is what it returns
CallNormalizeKey ==
    /\ op = "none"
    /\ op' = "normalizeKey"
    /\ ret' = normalizeKey(query)
    /\ UNCHANGED <<db, pc, chordCache, chordMap, normalizedMap, fingeringMap,
                   query, mapOrder, strategy, status, results, loads, backing, procs>>

CallNormalizeSuffix ==
    /\ op = "none"
    /\ op' = "normalizeSuffix"
    /\ ret' = normalizeSuffix(query)
    /\ UNCHANGED <<db, pc, chordCache, chordMap, normalizedMap, fingeringMap,
                   query, mapOrder, strategy, status, results, loads, backing, procs>>

CallIsLikelyFingeringPattern ==
    /\ op = "none"
    /\ op' = "isLikelyFingeringPattern"
    /\ ret' = isLikelyFingeringPattern(query)
    /\ UNCHANGED <<db, pc, chordCache, chordMap, normalizedMap, fingeringMap,
                   query, mapOrder, strategy, status, results, loads, backing, procs>>

CallIsLikelyChordName ==
    /\ op = "none"
    /\ op' = "isLikelyChordName"
    /\ ret' = isLikelyChordName(query)
    /\ UNCHANGED <<db, pc, chordCache, chordMap, normalizedMap, fingeringMap,
                   query, mapOrder, strategy, status, results, loads, backing, procs>>

NextPure ==
    \/ CallNormalizeKey
    \/ CallNormalizeSuffix
    \/ CallIsLikelyFingeringPattern
    \/ CallIsLikelyChordName

SpecPure == InitPure /\ [][NextPure]_vars

-----------------------------------------------------------------------------
(* The name search on the keys of the enharmonic table: chords of one key  *)
(* in every insertion order, asked for under both spellings of the key.    *)

MaxChords == 3

\* the keys chords are stored under, and the spellings normalizeKey takes to
\* them, pair by pair
SharpKeys == <<k_AS, <<"C", "#">>, <<"D", "#">>, <<"F", "#">>, <<"G", "#">>, <<"C">>, <<"F">>>>

FlatKeys == <<<<"B", "b">>, <<"D", "b">>, <<"E", "b">>, <<"G", "b">>, <<"A", "b">>, <<"B", "#">>, <<"E", "#">>>>

NameKeys == {SharpKeys[i] : i \in 1..Len(SharpKeys)} \cup {k_A}

\* four chords of a key
NameChords(K) ==
    {Row(K, s_major, <<<<"x", "3", "2", "0", "1", "0">>>>),
     Row(K, s_minor, <<<<"x", "3", "1", "0", "1", "3">>>>),
     Row(K, <<"7">>, <<<<"x", "3", "2", "3", "1", "0">>>>),
     Row(K, <<"d", "i", "m">>, <<<<"x", "3", "4", "2", "4", "2">>>>)}

\* chords of one key, and chords of A# or C# with a C chord among them
NameDatasets ==
    UNION {{rows \in UNION {[1..n -> NameChords(K)] : n \in 1..MaxChords} : UniquePairs(rows)} :
              K \in NameKeys}
      \cup UNION {{rows \in [1..3 -> {Row(K, <<"7">>, <<<<"x", "1">>>>),
                                       Row(K, s_major, <<<<"x", "2">>>>),
                                       Row(<<"C">>, s_major, <<<<"x", "3">>>>)}] : UniquePairs(rows)} :
                    K \in {k_AS, k_CS}}

NameSuffixes ==
    {<<>>, <<"m">>, <<"m", "i", "n">>, s_minor, <<"7">>, s_major, <<"m", "a", "j">>}

\* both spellings of every key with every suffix, some in lower case
NameQueries ==
    {K \o s : K \in NameKeys \cup {FlatKeys[i] : i \in 1..Len(FlatKeys)}, s \in NameSuffixes}
      \cup {<<"b", "b">>, <<"b", "b", "m">>, <<"B", "B", "7">>, <<"a", "m">>,
            <<"c", "#">>, <<"c", "#", "M", "a", "j">>, <<"d", "b", "m", "i", "n", "o", "r">>,
            <<"A", "d", "i", "m">>, <<"a", "d", "i", "m">>, <<"g", "#", "7">>}

InitNames ==
    /\ db \in NameDatasets
    /\ pc = "start"
    /\ chordCache = <<>>
    /\ chordMap = <<>>
    /\ normalizedMap = <<>>
    /\ fingeringMap = <<>>
    /\ op = "none"
    /\ query = <<>>
    /\ mapOrder = <<>>
    /\ strategy = "none"
    /\ status = 0
    /\ results = <<>>
    /\ loads = 0
    /\ ret = <<>>
    /\ backing = <<>>
    /\ procs = <<>>

NextNames ==
    \/ loadChordData
    \/ Return
    \/ \E q \in NameQueries : ResolveByName(q)

SpecNames == InitNames /\ [][NextNames]_vars

-----------------------------------------------------------------------------
(* sortByChordType on its own: chords of every chord type are loaded in    *)
(* every order, and the whole cache is sorted.                             *)

MaxSort == 3

\* the suffixes getChordTypePriority names, and two it does not
SortSuffixes ==
    {s_major, <<>>, s_minor, <<"m">>, <<"7">>, s_maj7, s_m7, <<"m", "i", "n", "7">>,
     <<"d", "i", "m">>, <<"a", "u", "g">>, s_sus2, s_sus4, <<"6">>, <<"9">>}

SortDatasets ==
    {rows \in UNION {[1..n -> {Row(<<"A">>, s, <<<<"x", "0">>>>) : s \in SortSuffixes}] :
                        n \in 0..MaxSort} : UniquePairs(rows)}

InitSort ==
    /\ db \in SortDatasets
    /\ pc = "start"
    /\ chordCache = <<>>
    /\ chordMap = <<>>
    /\ normalizedMap = <<>>
    /\ fingeringMap = <<>>
    /\ op = "none"
    /\ query = <<>>
    /\ mapOrder = <<>>
    /\ strategy = "none"
    /\ status = 0
    /\ results = <<>>
    /\ loads = 0
    /\ ret = <<>>
    /\ backing = <<>>
    /\ procs = <<>>

\* a call of sortByChordType on the chords of the cache, in their order
CallSortByChordType ==
    /\ pc = "serving"
    /\ op = "none"
    /\ op' = "sort"
    /\ results' = sortByChordType(Ids(Len(chordCache)))
    /\ UNCHANGED <<db, pc, chordCache, chordMap, normalizedMap, fingeringMap, query,
                   mapOrder, strategy, status, loads, ret, backing, procs>>

NextSort ==
    \/ loadChordData
    \/ Return
    \/ CallSortByChordType

SpecSort == InitSort /\ [][NextSort]_vars

-----------------------------------------------------------------------------
(* The claims.  Each is stated on the call being answered: its query, the  *)
(* order its range over fingeringMap took, and the chords it returned.     *)

\* the chords of a result, without their order
Range(chords) == {chords[k] : k \in 1..Len(chords)}

\* the name a chord is known by: its key followed by its suffix
ChordName(i) == chordCache[i].Key \o chordCache[i].Suffix

\* a name that one of the three special-case rules takes
IsSpecialName(q) == IsBbQuery(q) \/ IsAmQuery(q) \/ IsCSharpQuery(q)

\* C1: in a dataset with unique (key, suffix) pairs, the name search for the
\* key followed by the suffix of a loaded chord, when no special-case rule
\* takes that name, returns the chord as its first result.
C1_NameRoundTrip ==
    (op = "name" /\ UniquePairs(db)) =>
        \A i \in 1..Len(chordCache) :
            (query = ChordName(i) /\ ~IsSpecialName(query)) =>
                (Len(results) >= 1 /\ results[1] = i)

\* the chord i has a position whose frets is the string f
HasFrets(i, f) ==
    \E j \in 1..Len(chordCache[i].Positions) :
        /\ chordCache[i].Positions[j].isString
        /\ chordCache[i].Positions[j].frets = f

\* C2: the fingering search for the frets of any position of any loaded chord
\* answers with an exact match (every chord returned has that very frets)
\* that holds a chord with the key and the suffix of that chord.
C2_FingeringRoundTrip ==
    op = "fingering" =>
        \A i \in 1..Len(chordCache) :
            HasFrets(i, query) =>
                /\ \A k \in 1..Len(results) : HasFrets(results[k], query)
                /\ \E k \in 1..Len(results) :
                      /\ chordCache[results[k]].Key = chordCache[i].Key
                      /\ chordCache[results[k]].Suffix = chordCache[i].Suffix

\* a fingering shared by two chords was asked for and both came back
C2_Witness ==
    /\ op = "fingering"
    /\ \E i \in 1..Len(chordCache) : HasFrets(i, query)
    /\ Cardinality(Range(results)) >= 2

AmQueries == {<<"A", "m">>, <<"A", "m", "i", "n">>, <<"A", "m", "i", "n", "o", "r">>}

\* the dataset holds the A minor chord
HasAMinor == \E i \in 1..Len(chordCache) :
                chordCache[i].Key = k_A /\ chordCache[i].Suffix = s_minor

\* C3 as claimed: with the A minor chord in the dataset, "Am", "Amin" and
\* "Aminor" return it first, and every chord after it has the key A and a
\* suffix that begins with the lower-case letter m.
C3_AMinorFirst_Original ==
    (op = "name" /\ query \in AmQueries /\ HasAMinor) =>
        /\ Len(results) >= 1
        /\ chordCache[results[1]].Key = k_A
        /\ chordCache[results[1]].Suffix = s_minor
        /\ \A k \in 2..Len(results) :
              /\ chordCache[results[k]].Key = k_A
              /\ HasPrefix(chordCache[results[k]].Suffix, <<"m">>)

\* C3 as amended: with the A minor chord in the dataset, "Am", "Amin" and
\* "Aminor" return it first, and every chord after it has the key A and a
\* suffix that begins with m or M (the prefix test ignores letter case).
C3_AMinorFirst ==
    (op = "name" /\ query \in AmQueries /\ HasAMinor) =>
        /\ Len(results) >= 1
        /\ chordCache[results[1]].Key = k_A
        /\ chordCache[results[1]].Suffix = s_minor
        /\ \A k \in 2..Len(results) :
              /\ chordCache[results[k]].Key = k_A
              /\ chordCache[results[k]].Suffix # <<>>
              /\ chordCache[results[k]].Suffix[1] \in {"m", "M"}

\* "Amin" was asked of a dataset with A minor and another chord followed it
C3_Witness ==
    /\ op = "name"
    /\ query = <<"A", "m", "i", "n">>
    /\ HasAMinor
    /\ Len(results) >= 2

k_Ab == <<"A", "b">>
k_GS == <<"G", "#">>

\* the dataset holds a chord stored under the key G#
HasGSharp == \E i \in 1..Len(chordCache) : chordCache[i].Key = k_GS

\* what follows the first two characters of a query
AfterKey(q) == SubSeq(q, 3, Len(q))

\* C4: when the dataset holds a G# chord, the name search for "Ab" followed
\* by a suffix and the name search for "G#" followed by the same suffix
\* return the same set of chords.
C4_EnharmonicAbGSharp ==
    (op = "name" /\ HasGSharp) =>
        /\ HasPrefix(query, k_Ab) =>
              Range(results) = Range(searchByChordNameInMemory(k_GS \o AfterKey(query)))
        /\ HasPrefix(query, k_GS) =>
              Range(results) = Range(searchByChordNameInMemory(k_Ab \o AfterKey(query)))

\* "Ab" with a suffix was asked of a dataset with a G# chord, and found chords
C4_Witness ==
    /\ op = "name"
    /\ HasGSharp
    /\ HasPrefix(query, k_Ab)
    /\ Len(query) > 2
    /\ results # <<>>

\* the spellings of the major and of the minor suffix that the alias table
\* and the priority table accept for a stored chord
MajorSpellings == {s_major, <<>>}
MinorSpellings == {s_minor, <<"m">>}

\* the dataset holds a chord of key A with one of these suffixes
HasA(suffixes) ==
    \E i \in 1..Len(chordCache) :
        chordCache[i].Key = k_A /\ chordCache[i].Suffix \in suffixes

\* C5: when the dataset holds A major, A minor, A7 and Adim, in any insertion
\* order and any accepted spelling, the name search for "A" returns A major
\* first (so ahead of A7 and of Adim).
C5_MajorFirst ==
    (/\ op = "name"
     /\ query = k_A
     /\ HasA(MajorSpellings)
     /\ HasA(MinorSpellings)
     /\ HasA({<<"7">>})
     /\ HasA({<<"d", "i", "m">>})) =>
        /\ Len(results) >= 1
        /\ chordCache[results[1]].Key = k_A
        /\ chordCache[results[1]].Suffix \in MajorSpellings

\* the query without its last character
Front(q) == SubSeq(q, 1, Len(q) - 1)

\* C6 as claimed: for a non-empty pattern p and a character c, when the fingering
\* searches for p and for p followed by c both find chords, every chord found
\* for p followed by c is found for p, whatever order the range over the map
\* takes.
C6_PrefixMonotonic_Original ==
    (op = "fingering" /\ Len(query) >= 2 /\ results # <<>>) =>
        \A order \in FingeringOrders(Front(query)) :
            LET shorter == searchByFingeringInMemory(Front(query), order)
            IN  shorter # <<>> => Range(results) \subseteq Range(shorter)

\* C6 as amended: the same, when p is not itself an indexed fingering (the
\* search for p is a prefix match) and the prefix match for p meets at most
\* ten chords (nothing is cut off).
C6_PrefixMonotonic ==
    (op = "fingering" /\ Len(query) >= 2 /\ results # <<>>) =>
        \A order \in FingeringOrders(Front(query)) :
            LET shorter == searchByFingeringInMemory(Front(query), order)
            IN  (/\ shorter # <<>>
                 /\ Front(query) \notin DOMAIN fingeringMap
                 /\ Len(AppendMatches(order, 1)) <= 10) =>
                    Range(results) \subseteq Range(shorter)

\* a pattern of two characters or more found chords, and the pattern without
\* its last character, a prefix match, finds more chords than it
C6_Witness ==
    /\ op = "fingering"
    /\ Len(query) >= 2
    /\ results # <<>>
    /\ Front(query) \notin DOMAIN fingeringMap
    /\ \E order \in FingeringOrders(Front(query)) :
          /\ Len(AppendMatches(order, 1)) <= 10
          /\ Range(results) \subseteq Range(searchByFingeringInMemory(Front(query), order))
          /\ Range(results) # Range(searchByFingeringInMemory(Front(query), order))

\* C7: the name search returns at most ten chords, on every path.
C7_NameAtMostTen == op = "name" => Len(results) <= 10

\* C8: the fingering search returns at most ten chords, from the exact match
\* and from the prefix match.
C8_FingeringAtMostTen == op = "fingering" => Len(results) <= 10

\* the (key, suffix) of a returned chord
Pair(chords, k) == <<chordCache[chords[k]].Key, chordCache[chords[k]].Suffix>>

\* chords without every chord whose (key, suffix) an earlier one has
WithoutRepeats(chords) ==
    LET IsFirst(k) == \A j \in 1..(k - 1) : Pair(chords, j) # Pair(chords, k)
        kept == SelectSeq(Ids(Len(chords)), IsFirst)
    IN  [n \in 1..Len(kept) |-> chords[kept[n]]]

\* C9: the combined search returns the first five name results when there are
\* five or more; otherwise the name results followed by the fingering
\* results, without the later chords that repeat a (key, suffix), cut to ten.
\* Either way there are at most ten chords and no (key, suffix) twice.
C9_Combined ==
    op = "both" =>
        LET names == searchByChordNameInMemory(query)
            fingerings == searchByFingeringInMemory(query, mapOrder)
            merged == WithoutRepeats(names \o fingerings)
        IN  /\ Len(names) >= 5 => results = SubSeq(names, 1, 5)
            /\ Len(names) < 5 =>
                  /\ Len(results) = (IF Len(merged) > 10 THEN 10 ELSE Len(merged))
                  /\ \A k \in 1..Len(results) : results[k] = merged[k]
            /\ Len(results) <= 10
            /\ \A j, k \in 1..Len(results) :
                  Pair(results, j) = Pair(results, k) => j = k

\* the name search and the fingering search both found the same chord, and
\* the combined search returned it once
C9_Witness ==
    /\ op = "both"
    /\ searchByChordNameInMemory(query) # <<>>
    /\ Len(searchByChordNameInMemory(query)) < 5
    /\ Range(searchByChordNameInMemory(query))
          \cap Range(searchByFingeringInMemory(query, mapOrder)) # {}
    /\ Len(results) < Len(searchByChordNameInMemory(query))
                        + Len(searchByFingeringInMemory(query, mapOrder))

\* every character is a digit, a lower-case letter, x or X
LooksLikeFingering(q) ==
    \A k \in 1..Len(q) :
        q[k] \in Digits \cup {LowerLetters[n] : n \in 1..26} \cup {"x", "X"}

\* the first character is a letter from A to G, in either case
LooksLikeChordName(q) ==
    /\ Len(q) > 0
    /\ q[1] \in {"A", "B", "C", "D", "E", "F", "G", "a", "b", "c", "d", "e", "f", "g"}

\* C10: for a non-empty query the search endpoint uses exactly one strategy:
\* the fingering search iff the query looks like a fingering and not like a
\* chord name, the name search iff it looks like a chord name and not like a
\* fingering, the combined search otherwise; and it answers with what that
\* resolver returns.
C10_Disambiguation ==
    (op = "search" /\ query # <<>>) =>
        LET f == LooksLikeFingering(query)
            n == LooksLikeChordName(query)
        IN  /\ strategy \in {"fingering", "name", "both"}
            /\ strategy = "fingering" <=> (f /\ ~n)
            /\ strategy = "name" <=> (n /\ ~f)
            /\ strategy = "both" <=> ((f /\ n) \/ (~f /\ ~n))
            /\ strategy = "fingering" =>
                  results = searchByFingeringInMemory(query, mapOrder)
            /\ strategy = "name" => results = searchByChordNameInMemory(query)
            /\ strategy = "both" => results = searchBothInMemory(query, mapOrder)

\* a query that looks like both went to the combined search and found chords
C10_Witness ==
    /\ op = "search"
    /\ LooksLikeFingering(query)
    /\ LooksLikeChordName(query)
    /\ strategy = "both"
    /\ results # <<>>

-----------------------------------------------------------------------------
(* The classifier and the normalization functions, under SpecPure.         *)

\* the characters of the fingering grammar
FingeringChars == {c \in Chars : c \in Digits \/ IsLower(c) \/ c \in {"x", "X"}}

q_x47654 == <<"x", "4", "7", "6", "5", "4">>
q_abcdef == <<"a", "b", "c", "d", "e", "f">>

\* C11 as stated: isLikelyFingeringPattern(q) is true iff every character of
\* q is a digit, a lower-case letter, 'x' or 'X', and it is false for the
\* empty string.
C11_FingeringGrammar_Original ==
    op = "isLikelyFingeringPattern" =>
        (ret <=> (query # <<>> /\ \A i \in 1..Len(query) : query[i] \in FingeringChars))

\* C11: isLikelyFingeringPattern(q) is true iff every character of q is a
\* digit, a lower-case letter, 'x' or 'X': it is true for "x47654" and for
\* "abcdef", false for a query with any other character, and true for the
\* empty string, which has no character that fails the test.
C11_FingeringGrammar ==
    op = "isLikelyFingeringPattern" =>
        /\ ret <=> \A i \in 1..Len(query) : query[i] \in FingeringChars
        /\ query \in {q_x47654, q_abcdef, <<>>} => ret
        /\ (\E i \in 1..Len(query) : IsKeyUpper(query[i])) => ~ret

\* the empty string has been classified, and the answer was true
C11_Witness ==
    op = "isLikelyFingeringPattern" /\ query = <<>> /\ ret = TRUE

\* the spellings the alias table of the specification maps to each suffix
C12Table ==
    (<<>> :> s_major) @@ (<<"M">> :> s_major) @@ (<<"M", "A", "J">> :> s_major) @@
    (<<"m">> :> s_minor) @@ (<<"M", "I", "N">> :> s_minor) @@
    (<<"M", "I", "N", "O", "R">> :> s_minor) @@
    (<<"5">> :> <<"5">>) @@ (<<"P", "O", "W", "E", "R">> :> <<"5">>) @@
    (<<"F", "I", "F", "T", "H">> :> <<"5">>) @@
    (<<"7">> :> <<"7">>) @@ (<<"D", "O", "M">> :> <<"7">>) @@
    (<<"D", "O", "M", "7">> :> <<"7">>) @@
    (<<"m", "7">> :> s_m7) @@ (<<"M", "I", "N", "7">> :> s_m7) @@
    (<<"M", "I", "N", "O", "R", "7">> :> s_m7) @@
    (<<"m", "a", "j", "7">> :> s_maj7) @@ (<<"M", "A", "J", "O", "R", "7">> :> s_maj7) @@
    (<<"M", "7">> :> s_maj7) @@
    (<<"s", "u", "s", "2">> :> s_sus2) @@ (<<"s", "u", "s", "4">> :> s_sus4)

\* C12: normalizeSuffix maps every raw spelling of the alias table to its
\* canonical suffix ("m" to "minor", "m7" to "m7", "M7" to "maj7", ...), and
\* returns a suffix that is in the table in no letter case upper-cased.
C12_AliasTable ==
    op = "normalizeSuffix" =>
        /\ query \in DOMAIN C12Table => ret = C12Table[query]
        /\ (\A k \in DOMAIN C12Table : ToUpper(k) # ToUpper(query)) => ret = ToUpper(query)

\* the enharmonic table of the specification, on upper-cased keys
C13Table ==
    (<<"B", "B">> :> <<"A", "#">>) @@ (<<"D", "B">> :> <<"C", "#">>) @@
    (<<"E", "B">> :> <<"D", "#">>) @@ (<<"G", "B">> :> <<"F", "#">>) @@
    (<<"A", "B">> :> <<"G", "#">>) @@ (<<"B", "#">> :> <<"C">>) @@
    (<<"E", "#">> :> <<"F">>)

\* C13: normalizeKey returns for every key: in any letter case Bb gives A#,
\* Db C#, Eb D#, Gb F#, Ab G#, B# C and E# F, and every other key comes
\* back upper-cased.
C13_EnharmonicTable ==
    op = "normalizeKey" =>
        LET upper == ToUpper(query)
        IN  IF upper \in DOMAIN C13Table THEN ret = C13Table[upper] ELSE ret = upper

\* a flat key in lower case has been normalized to its sharp
C13_Witness ==
    op = "normalizeKey" /\ query = <<"a", "b">> /\ ret = <<"G", "#">>

-----------------------------------------------------------------------------
(* Loading.                                                                *)

\* C15: a call of loadChordData that follows another on the same table leaves
\* the cache and the three indexes, which are all that the resolvers read,
\* exactly as they were: every name, fingering and combined query is answered
\* as after a single load, and no chord or list entry is added.
C15_LoadIdempotent ==
    [][(loads >= 1 /\ loads' = loads + 1) =>
          /\ chordCache' = chordCache
          /\ chordMap' = chordMap
          /\ normalizedMap' = normalizedMap
          /\ fingeringMap' = fingeringMap]_vars

\* a name query answered with a chord after the second load
C15_Witness ==
    loads = 2 /\ op = "name" /\ results # <<>>

\* C16: the process never serves with an empty store: a load that leaves
\* no chord in the cache is fatal.
C16_NoServingWithoutData ==
    pc = "serving" => Len(chordCache) > 0

\* C17: when exactly one row of the table does not parse, the load still
\* succeeds and every other row is in the cache afterwards.
C17_SkipsUnparsedEntry ==
    (loads >= 1 /\ Cardinality({i \in 1..Len(db) : ~db[i].parses}) = 1) =>
        /\ pc = "serving"
        /\ \A i \in 1..Len(db) :
              db[i].parses =>
                  \E j \in 1..Len(chordCache) :
                      /\ chordCache[j].Key = db[i].key
                      /\ chordCache[j].Suffix = db[i].suffix

-----------------------------------------------------------------------------
(* The endpoints.                                                          *)

\* the chord i has a position whose frets starts with the string f
HasFretsFrom(i, f) ==
    \E j \in 1..Len(chordCache[i].Positions) :
        /\ chordCache[i].Positions[j].isString
        /\ HasPrefix(chordCache[i].Positions[j].frets, f)

EnharmonicRequests ==
    {[path |-> <<"A", "b">>, key |-> <<"G", "#">>, suffix |-> s_major],
     [path |-> <<"A", "b", "m", "i", "n">>, key |-> <<"G", "#">>, suffix |-> s_minor],
     [path |-> <<"B", "#">>, key |-> <<"C">>, suffix |-> s_major],
     [path |-> <<"B", "b">>, key |-> <<"A", "#">>, suffix |-> s_major]}

\* the cache holds the record a request asks for
Holds(r) ==
    \E i \in 1..Len(chordCache) :
        chordCache[i].Key = r.key /\ chordCache[i].Suffix = r.suffix

\* C19: for a request whose key is a flat or B# spelling (Ab, Abmin, B#, Bb)
\* and a dataset that holds the record under the equivalent key with the
\* matching suffix (G# major, G# minor, C major, A# major), the /chords/
\* endpoint answers 200 with one record, which has the equivalent key and
\* at least one position.
C19_ChordsEnharmonic ==
    op = "chords" =>
        \A r \in EnharmonicRequests :
            (query = r.path /\ Holds(r)) =>
                /\ status = StatusOK
                /\ Len(results) = 1
                /\ chordCache[results[1]].Key = r.key
                /\ Len(chordCache[results[1]].Positions) >= 1

\* "Abmin" was answered from a dataset that holds G# minor
C19_Witness ==
    /\ op = "chords"
    /\ query = <<"A", "b", "m", "i", "n">>
    /\ \E r \in EnharmonicRequests : r.path = query /\ Holds(r)
    /\ status = StatusOK

\* no indexed fingering starts with the query
NoFingeringMatches(q) == \A f \in DOMAIN fingeringMap : ~HasPrefix(f, q)

\* no chord has the key the query names, in any spelling
NoNameMatches(q) ==
    \A i \in 1..Len(chordCache) :
        chordCache[i].NormalizedKey # normalizeKey(SplitQuery(q).key)

\* C20: a resolver returns the empty list when no record matches (the name
\* search when no chord has the key of the query, the fingering search when
\* no fingering starts with it, the combined search when both hold), and the
\* /search/ endpoint answers 404 exactly when its resolver returned the empty
\* list: so for "abcdef" and "9abcde" when no fingering starts with them.
C20_NoMatchIsNotFound ==
    /\ (op = "name" /\ NoNameMatches(query)) => results = <<>>
    /\ (op = "fingering" /\ NoFingeringMatches(query)) => results = <<>>
    /\ (op = "both" /\ NoNameMatches(query) /\ NoFingeringMatches(query)) => results = <<>>
    /\ (op = "search" /\ query # <<>>) =>
          /\ (NoNameMatches(query) /\ NoFingeringMatches(query)) => results = <<>>
          /\ (results = <<>>) <=> (status = StatusNotFound)
          /\ (results # <<>>) <=> (status = StatusOK)

\* the search for "9abcde" in a loaded store was answered 404
C20_Witness ==
    /\ op = "search"
    /\ query = <<"9", "a", "b", "c", "d", "e">>
    /\ chordCache # <<>>
    /\ strategy = "fingering"
    /\ status = StatusNotFound

-----------------------------------------------------------------------------
(* Concurrent resolution, under SpecConcurrent.                            *)

\* what the call of a goroutine returns when it runs alone
Alone(me) ==
    CASE me.kind = "name" -> searchByChordNameInMemory(me.query)
      [] me.kind = "fingering" -> searchByFingeringInMemory(me.query, me.order)
      [] me.kind = "both" -> searchBothInMemory(me.query, me.order)

\* every call that has returned has returned what it returns alone
AnswersAsAlone ==
    \A p \in DOMAIN procs : procs[p].pc = "done" => procs[p].results = Alone(procs[p])

\* the backing arrays of the index lists are as the load left them
BackingUntouched ==
    pc = "serving" =>
        \A k \in DOMAIN backing :
            \A i \in 1..Len(backing[k]) :
                backing[k][i] = IF i <= Len(normalizedMap[k]) THEN normalizedMap[k][i] ELSE 0

\* C14: resolver calls interleaved in any way each return what the same call
\* returns alone, and none writes to memory shared with the indexes, the
\* backing array of a list that a resolver returns and then appends to
\* included.
C14_ConcurrentReads == AnswersAsAlone /\ BackingUntouched

-----------------------------------------------------------------------------
(* The fingering index and the order of its answers.                       *)

\* the frets is written with digits, lower-case letters, "x" and "X" only
InGrammar(frets) == \A k \in 1..Len(frets) : frets[k] \in FingeringChars

\* the frets strings of the loaded table that are outside the grammar
OddFrets ==
    {db[i].positions[p].frets :
        <<i, p>> \in {<<i, p>> \in (1..Len(db)) \X (1..3) :
                        /\ p <= Len(db[i].positions)
                        /\ db[i].positions[p].isString
                        /\ ~InGrammar(db[i].positions[p].frets)}}

\* C21: after the load every key of the fingering index is written with
\* digits, lower-case letters, "x" and "X" only, and a frets string outside
\* this grammar is no key of the fingering index.
C21_FingeringIndexGrammar ==
    pc = "serving" =>
        /\ \A frets \in DOMAIN fingeringMap : InGrammar(frets)
        /\ \A frets \in OddFrets : frets \notin DOMAIN fingeringMap

\* the characters of the model in the order of their bytes
ByteOrder ==
    <<" ", "#", "+", "-", "/", "0", "1", "2", "3", "4", "5", "6", "7", "8", "9">>
        \o UpperLetters \o LowerLetters \o <<"|">>

ByteOf(c) == CHOOSE i \in 1..Len(ByteOrder) : ByteOrder[i] = c

\* s < t as Go compares strings
StringLess(s, t) ==
    \E k \in 1..Len(t) :
        /\ \A j \in 1..(k - 1) : j <= Len(s) /\ s[j] = t[j]
        /\ k > Len(s) \/ ByteOf(s[k]) < ByteOf(t[k])

\* the strings of S in ascending order
Ascending(S) ==
    CHOOSE o \in Orders(S) : \A i \in 1..(Len(o) - 1) : StringLess(o[i], o[i + 1])

\* C22: when the fingering search falls back to the prefix match, the chords
\* come in the ascending order of the fingering strings that matched, and
\* the chords under one fingering string in their insertion order.
C22_PrefixOrder ==
    (op = "fingering" /\ query \notin DOMAIN fingeringMap) =>
        results = Truncate(AppendMatches(Ascending(MatchingFrets(query)), 1), FingeringLimit)

-----------------------------------------------------------------------------
(* The special cases, the aliases and the spellings of the name search.    *)

\* the first chord stored as A# major, 0 when there is none
ASharpMajor ==
    LET hits == {i \in 1..Len(chordCache) :
                    chordCache[i].Key = <<"A", "#">> /\ chordCache[i].Suffix = s_major}
    IN  IF hits = {} THEN 0 ELSE CHOOSE i \in hits : \A j \in hits : i <= j

\* the query is "Bb" or starts with "Bb", in any case of its letters
IsBbFamily(q) == HasPrefix(ToUpper(q), <<"B", "B">>)

\* C23: for a query of the Bb family asked of a dataset with the A# major
\* chord, the name search returns A# major first, and every chord it
\* returns is stored under the key A#.
C23_BbFamily ==
    (op = "name" /\ IsBbFamily(query) /\ ASharpMajor # 0) =>
        /\ results # <<>>
        /\ results[1] = ASharpMajor
        /\ \A k \in 1..Len(results) : chordCache[results[k]].Key = <<"A", "#">>

\* "Bb" with a suffix was asked of a dataset with a C chord and an A# chord
\* loaded before A# major
C23_Witness ==
    /\ op = "name"
    /\ IsBbFamily(query)
    /\ Len(query) > 2
    /\ ASharpMajor > 1
    /\ \E i \in 1..Len(chordCache) : chordCache[i].Key = <<"C">>
    /\ chordCache[1].Key = <<"A", "#">>
    /\ Len(results) = 2

\* the first chord of a list as a list of one chord, the empty list of none
FirstOf(chords) == IF Len(chords) > 0 THEN <<chords[1]>> ELSE <<>>

\* the chords stored under the key and the suffix the endpoint splits a name into
StoredAsSplit(q) ==
    {i \in 1..Len(chordCache) :
        /\ chordCache[i].Key = SplitChordPath(q).key
        /\ chordCache[i].Suffix = SplitChordPath(q).suffix}

\* the chords indexed under the normalized pair of that split
IndexedAsSplit(q) ==
    {i \in 1..Len(chordCache) :
        /\ chordCache[i].NormalizedKey = normalizeKey(SplitChordPath(q).key)
        /\ chordCache[i].NormalizedSuffix = normalizeSuffix(SplitChordPath(q).suffix)}

ClaimedPriority(i) ==
    LET s == ToLower(chordCache[i].Suffix)
    IN  CASE s \in {<<>>, s_major} -> 0
          [] s \in {s_minor, <<"m">>} -> 1
          [] s = <<"7">> -> 2
          [] s = s_maj7 -> 3
          [] s = s_m7 -> 4
          [] s = <<"d", "i", "m">> -> 5
          [] s = <<"a", "u", "g">> -> 6
          [] s = s_sus2 -> 7
          [] s = s_sus4 -> 8
          [] OTHER -> 100

\* the same table with "min7" next to "m7"
TypePriority(i) ==
    IF ToLower(chordCache[i].Suffix) = <<"m", "i", "n", "7">> THEN 4 ELSE ClaimedPriority(i)

\* the output holds every chord of the input once
IsPermutationOfCache ==
    /\ Len(results) = Len(chordCache)
    /\ Range(results) = 1..Len(chordCache)

\* C25 as claimed: the output of sortByChordType is a permutation of its
\* input, the priorities of the claim's table are non-decreasing along it,
\* and two chords of equal priority keep their input order.
C25_StableSort_Original ==
    op = "sort" =>
        /\ IsPermutationOfCache
        /\ \A k \in 1..(Len(results) - 1) :
              ClaimedPriority(results[k]) <= ClaimedPriority(results[k + 1])
        /\ \A k, l \in 1..Len(results) :
              (k < l /\ ClaimedPriority(results[k]) = ClaimedPriority(results[l])) =>
                  results[k] < results[l]

\* C25: the output of sortByChordType is a permutation of its input, the
\* priorities (major/empty = 0, minor/m = 1, 7 = 2, maj7 = 3, m7/min7 = 4,
\* dim = 5, aug = 6, sus2 = 7, sus4 = 8, other = 100) are non-decreasing
\* along it, and two chords of equal priority keep their input order.
C25_StableSort ==
    op = "sort" =>
        /\ IsPermutationOfCache
        /\ \A k \in 1..(Len(results) - 1) :
              TypePriority(results[k]) <= TypePriority(results[k + 1])
        /\ \A k, l \in 1..Len(results) :
              (k < l /\ TypePriority(results[k]) = TypePriority(results[l])) =>
                  results[k] < results[l]

\* three chords were sorted, two of them of equal priority, and the sort
\* moved a chord
C25_Witness ==
    /\ op = "sort"
    /\ Len(results) = 3
    /\ results # <<1, 2, 3>>
    /\ \E k, l \in 1..3 : k # l /\ TypePriority(k) = TypePriority(l)

\* the dataset holds the chord of key K with this suffix
HasChord(K, suffix) ==
    \E i \in 1..Len(chordCache) : chordCache[i].Key = K /\ chordCache[i].Suffix = suffix

\* C26: for every key K of which the dataset holds the minor chord next to
\* the major chord, the name searches for K followed by "m", by "min" and by
\* "minor" return the K minor chord first.
C26_MinorAlias ==
    op = "name" =>
        \A K \in {chordCache[i].Key : i \in 1..Len(chordCache)} :
            (/\ HasChord(K, s_minor)
             /\ HasChord(K, s_major)
             /\ query \in {K \o <<"m">>, K \o <<"m", "i", "n">>, K \o s_minor}) =>
                /\ results # <<>>
                /\ chordCache[results[1]].Key = K
                /\ chordCache[results[1]].Suffix = s_minor

\* the pairs of the enharmonic table whose first spelling starts the query
PairsOf(q) == {i \in 1..Len(FlatKeys) : HasPrefix(q, FlatKeys[i])}

\* the query under the second spelling of pair i
Respelled(q, i) == SharpKeys[i] \o SubSeq(q, 3, Len(q))

\* C27 as claimed: for every pair of the enharmonic table and every suffix,
\* the name searches for the two spellings followed by the suffix return
\* the same chords in the same order.
C27_EnharmonicPairs_Original ==
    op = "name" =>
        \A i \in PairsOf(query) : results = searchByChordNameInMemory(Respelled(query, i))

\* C27: for every pair of the enharmonic table and every suffix, the name
\* searches for the two spellings followed by the suffix return the same
\* chords in the same order, unless one of the two queries is taken by a
\* special-case rule (it starts with "Bb", or it is "C#", "C#maj" or
\* "C#major", in any case).
C27_EnharmonicPairs ==
    op = "name" =>
        \A i \in PairsOf(query) :
            (~IsSpecialName(query) /\ ~IsSpecialName(Respelled(query, i))) =>
                results = searchByChordNameInMemory(Respelled(query, i))

\* a flat or B#/E# spelling with a suffix found two chords or more, stored
\* under the other spelling of the key and not loaded in the order of their
\* chord types
C27_Witness ==
    /\ op = "name"
    /\ PairsOf(query) # {}
    /\ ~IsSpecialName(query)
    /\ Len(query) > 2
    /\ Len(results) >= 2
    /\ results[1] > results[2]

\* C28: for a loaded dataset and a query, the fingering search returns the
\* same chords in the same order whatever order the range over fingeringMap
\* takes, and so does the combined search.
C28_Deterministic ==
    /\ op = "fingering" =>
          \A order \in FingeringOrders(query) :
              results = searchByFingeringInMemory(query, order)
    /\ op = "both" =>
          \A order \in BothOrders(query) : results = searchBothInMemory(query, order)

-----------------------------------------------------------------------------
(* The normalization functions applied to their own results.               *)

\* C29: normalizeKey and normalizeSuffix are idempotent: applied to their
\* own result they return it unchanged.
C29_Idempotent ==
    /\ op = "normalizeKey" => normalizeKey(ret) = ret
    /\ op = "normalizeSuffix" => normalizeSuffix(ret) = ret

-----------------------------------------------------------------------------
(* The case of the letters of a query.                                     *)

\* C30: the name search for a query and the name search for the query in
\* upper case return the same chords in the same order.
C30_CaseInsensitive ==
    op = "name" => results = searchByChordNameInMemory(ToUpper(query))

\* a query starting with a lower-case letter of a key, which no special
\* case takes, found a chord
C30_Witness ==
    /\ op = "name"
    /\ Len(query) > 2
    /\ IsKeyLower(query[1])
    /\ ~IsSpecialName(query)
    /\ results # <<>>
====
